---- MODULE Spec2Model ----
(***************************************************************************)
(* Model of src/src/App.tsx: the App component of the hospital finder.     *)
(*                                                                         *)
(* The component's state (location, hospitals, loading, error), the mount  *)
(* effect with the two geolocation callbacks, the asynchronous             *)
(* fetchNearbyHospitals with its two suspension points (fetch and          *)
(* response.json), the result pipeline (filter / map / filter / sort /     *)
(* slice), calculateDistance / toRad, handleGetDirections and the three    *)
(* render branches.                                                        *)
(*                                                                         *)
(* Numbers.  JavaScript numbers are IEEE doubles; here a real r is the     *)
(* integer r * Scale, and products and quotients are truncated towards     *)
(* zero, so that, as in IEEE arithmetic, negating an operand negates the   *)
(* result.  Coordinates are whole degrees.  A value of type                *)
(* "number | undefined" (or a possibly-NaN number) is a sequence: <<>> for *)
(* undefined / NaN and <<n>> for the number n.                             *)
(***************************************************************************)
EXTENDS Integers, Sequences, FiniteSets, TLC

-----------------------------------------------------------------------------
(* Fixed-point arithmetic standing for the double arithmetic of the source *)

Scale == 10000

Abs(x) == IF x < 0 THEN -x ELSE x

Sgn(x) == IF x < 0 THEN -1 ELSE IF x > 0 THEN 1 ELSE 0

\* x * y on scaled values
FMul(x, y) == Sgn(x) * Sgn(y) * ((Abs(x) * Abs(y)) \div Scale)

\* x / n for a scaled x and a plain integer n > 0
FDiv(x, n) == Sgn(x) * (Abs(x) \div n)

\* Math.PI
PI == 31416

\* terms of the sine / cosine power series kept
SeriesTerms == 9

RECURSIVE PowerSeries(_, _, _, _)
\* sum of the alternating series whose current term is term and whose next
\* term is -term * x * x / ((n + 1) * (n + 2))
PowerSeries(x, term, n, left) ==
    IF left = 0 \/ term = 0 THEN 0
    ELSE term + PowerSeries(x,
                            0 - FDiv(FMul(FDiv(FMul(term, x), n + 1), x), n + 2),
                            n + 2, left - 1)

\* Math.sin
Sin(x) == PowerSeries(x, x, 1, SeriesTerms)

\* Math.cos
Cos(x) == PowerSeries(x, Scale, 0, SeriesTerms)

RECURSIVE SqrtSearch(_, _, _)
\* the largest r in lo..hi with r * r <= n
SqrtSearch(n, lo, hi) ==
    IF lo >= hi THEN lo
    ELSE LET mid == (lo + hi + 1) \div 2
         IN  IF mid * mid <= n THEN SqrtSearch(n, mid, hi)
                               ELSE SqrtSearch(n, lo, mid - 1)

\* Math.sqrt on a scaled value; <<>> (NaN) for a negative one
Sqrt(x) == IF x < 0 THEN <<>> ELSE <<SqrtSearch(x * Scale, 0, 2 * Scale)>>

RECURSIVE AtanSearch(_, _, _, _)
\* the least angle t in lo..hi with sin(t) * x >= cos(t) * y
AtanSearch(y, x, lo, hi) ==
    IF lo >= hi THEN lo
    ELSE LET mid == (lo + hi) \div 2
         IN  IF FMul(Sin(mid), x) >= FMul(Cos(mid), y)
             THEN AtanSearch(y, x, lo, mid)
             ELSE AtanSearch(y, x, mid + 1, hi)

\* Math.atan2(y, x) for y >= 0 and x >= 0: the angle in [0, PI/2]
Atan2(y, x) == AtanSearch(y, x, 0, PI \div 2)

-----------------------------------------------------------------------------
(* Geo-math: toRad and calculateDistance                                   *)

\* const toRad = (value) => (value * Math.PI) / 180
toRad(value) == FDiv(value * PI, 180)

\* Earth's radius in kilometers
R == 6371

\* calculateDistance with lat1 used for both cosines
calculateDistanceOneCosine(lat1, lon1, lat2, lon2) ==
    LET dLat == toRad(lat2 - lat1)
        dLon == toRad(lon2 - lon1)
        a == FMul(Sin(FDiv(dLat, 2)), Sin(FDiv(dLat, 2)))
             + FMul(FMul(FMul(Cos(toRad(lat1)), Cos(toRad(lat1))),
                         Sin(FDiv(dLon, 2))),
                    Sin(FDiv(dLon, 2)))
        sa == Sqrt(a)
        sb == Sqrt(Scale - a)
    IN  IF sa = <<>> \/ sb = <<>> THEN <<>>
        ELSE <<R * (2 * Atan2(sa[1], sb[1]))>>

\* calculateDistance on numbers: scaled kilometers, or <<>> for NaN
calculateDistance(lat1, lon1, lat2, lon2) ==
    LET dLat == toRad(lat2 - lat1)
        dLon == toRad(lon2 - lon1)
        a == FMul(Sin(FDiv(dLat, 2)), Sin(FDiv(dLat, 2)))
             + FMul(FMul(FMul(Cos(toRad(lat1)), Cos(toRad(lat2))),
                         Sin(FDiv(dLon, 2))),
                    Sin(FDiv(dLon, 2)))
        sa == Sqrt(a)
        sb == Sqrt(Scale - a)
    IN  IF sa = <<>> \/ sb = <<>> THEN <<>>
        ELSE <<R * (2 * Atan2(sa[1], sb[1]))>>

-----------------------------------------------------------------------------
(* Result pipeline: lines 93-125 of fetchNearbyHospitals                   *)

\* JavaScript truthiness of a number | undefined: 0, NaN and undefined are falsy
TruthyNum(m) == m # <<>> /\ m[1] # 0

\* JavaScript truthiness of a string | undefined: "" and undefined are falsy
TruthyStr(m) == m # <<>> /\ m[1] # ""

\* obj[key] of a JSON object: <<>> when the key is missing
Get(obj, key) == IF key \in DOMAIN obj THEN <<obj[key]>> ELSE <<>>

\* .filter((element) => element.tags && element.tags.name)
HasName(element) ==
    /\ "tags" \in DOMAIN element
    /\ TruthyStr(Get(element.tags, "name"))

\* element.lat || (element.center && element.center.lat), and the same for lon
ResolveCoord(element, key) ==
    IF TruthyNum(Get(element, key)) THEN Get(element, key)
    ELSE IF "center" \in DOMAIN element THEN Get(element.center, key)
    ELSE <<>>

\* calculateDistance as the pipeline calls it: undefined arguments give NaN
DistanceTo(userLocation, lat, lng) ==
    IF lat = <<>> \/ lng = <<>> THEN <<>>
    ELSE calculateDistance(userLocation.lat, userLocation.lng, lat[1], lng[1])

\* parseFloat(distance.toFixed(1)): tenths of a kilometer, NaN stays NaN
ToFixed1(distance) ==
    IF distance = <<>> THEN <<>>
    ELSE <<(distance[1] + (Scale \div 20)) \div (Scale \div 10)>>

\* tags[key] || fallback
TagOr(tags, key, fallback) ==
    IF TruthyStr(Get(tags, key)) THEN tags[key] ELSE fallback

\* the .map callback: one HospitalData record per named element
ToHospital(element, userLocation) ==
    LET lat == ResolveCoord(element, "lat")
        lng == ResolveCoord(element, "lon")
    IN  [ id        |-> element.id,
          name      |-> element.tags.name,
          distance  |-> ToFixed1(DistanceTo(userLocation, lat, lng)),
          address   |-> TagOr(element.tags, "addr:street", "Address not available"),
          phone     |-> TagOr(element.tags, "phone", "N/A"),
          emergency |-> Get(element.tags, "emergency") = <<"yes">>,
          rating    |-> 4,
          specialties |-> <<"General Medicine">>,
          openNow   |-> TRUE,
          location  |-> [lat |-> lat, lng |-> lng] ]

\* the location filter testing the latitude only
HasLatitudeOnly(hospital) == TruthyNum(hospital.location.lat)

\* .filter((hospital) => hospital.location.lat && hospital.location.lng)
HasLocation(hospital) ==
    TruthyNum(hospital.location.lat) /\ TruthyNum(hospital.location.lng)

\* (a, b) => a.distance - b.distance; the sort reads a NaN result as 0
CompareDistance(a, b) ==
    IF a.distance = <<>> \/ b.distance = <<>> THEN 0
    ELSE a.distance[1] - b.distance[1]

RECURSIVE InsertByDistance(_, _)
\* h placed after every record that does not compare larger (stable)
InsertByDistance(sorted, h) ==
    IF sorted = <<>> THEN <<h>>
    ELSE IF CompareDistance(Head(sorted), h) <= 0
         THEN <<Head(sorted)>> \o InsertByDistance(Tail(sorted), h)
         ELSE <<h>> \o sorted

RECURSIVE SortByDistance(_)
\* .sort((a, b) => a.distance - b.distance), a stable sort
SortByDistance(seq) ==
    IF seq = <<>> THEN <<>>
    ELSE InsertByDistance(SortByDistance(SubSeq(seq, 1, Len(seq) - 1)),
                          seq[Len(seq)])

\* the cap of .slice(0, 10)
MaxResults == 10

\* .slice(0, 10)
Slice(seq) == SubSeq(seq, 1, IF Len(seq) < MaxResults THEN Len(seq) ELSE MaxResults)

\* the records before sorting: filter, map, filter
Candidates(elements, userLocation) ==
    LET named == SelectSeq(elements, HasName)
        mapped == [i \in 1..Len(named) |-> ToHospital(named[i], userLocation)]
    IN  SelectSeq(mapped, HasLocation)

\* data.elements.filter(...).map(...).filter(...).sort(...).slice(0, 10)
nearbyHospitals(elements, userLocation) ==
    Slice(SortByDistance(Candidates(elements, userLocation)))

-----------------------------------------------------------------------------
(* The environment: positions the location capability may report and       *)
(* responses the geodata service may give                                  *)

\* the longest response whose elements are drawn freely from ElementKinds
MaxLen == 2

\* the longest response of the LongElements family (more than MaxResults)
MaxElems == 16

\* the first elements of the LongElements family that a response may skip
MaxStart == 2

\* the most routing URLs opened in one session
MaxOpens == 1

\* the cards, counted from the top of the list, whose button is clicked
MaxCard == 2

\* position.coords of the success callback
UserLocations == { [lat |-> 20, lng |-> 10], [lat |-> 0, lng |-> 30] }

\* raw elements of an Overpass answer, without their id
ElementKinds ==
    { \* a node with every tag the pipeline reads
      [ type |-> "node", lat |-> 25, lon |-> 10,
        tags |-> ("addr:street" :> "Main St")
                 @@ [name |-> "General", phone |-> "555", emergency |-> "yes"] ],
      \* a farther node with a name only
      [ type |-> "node", lat |-> 20, lon |-> 40,
        tags |-> [name |-> "County", emergency |-> "no"] ],
      \* a way with a center and no point of its own
      [ type |-> "way", center |-> [lat |-> 30, lon |-> 20],
        tags |-> [name |-> "Clinic"] ],
      \* a way without geometry
      [ type |-> "way", tags |-> [name |-> "Annex"] ],
      \* a skeleton node: a point without tags
      [ type |-> "node", lat |-> 25, lon |-> 10 ],
      \* a tagged node without a name
      [ type |-> "node", lat |-> 22, lon |-> 12,
        tags |-> [amenity |-> "hospital"] ],
      \* a named node on the equator
      [ type |-> "node", lat |-> 0, lon |-> 20,
        tags |-> [name |-> "Equator"] ],
      \* a named node on the prime meridian
      [ type |-> "node", lat |-> 10, lon |-> 0,
        tags |-> [name |-> "Greenwich"] ],
      \* a named element with a point and a center
      [ type |-> "relation", lat |-> 15, lon |-> 15,
        center |-> [lat |-> 40, lon |-> 50],
        tags |-> [name |-> "Campus"] ] }

\* element.id: unique within a response
WithIds(kinds) == [i \in DOMAIN kinds |-> ("id" :> i) @@ kinds[i]]

\* the i-th element of a long answer: named nodes at varying distances, with
\* a way without geometry and a skeleton node in every seven elements
LongElement(i) ==
    IF i % 7 = 0
    THEN [ id |-> i, type |-> "way", tags |-> [name |-> "Annex"] ]
    ELSE IF i % 7 = 4
    THEN [ id |-> i, type |-> "node", lat |-> 21, lon |-> 11 ]
    ELSE [ id |-> i, type |-> "node",
           lat |-> 5 + ((i * 7) % 13) * 4, lon |-> 10 + ((i * 5) % 7) * 6,
           tags |-> [name |-> "Hospital"] ]

\* the elements sequences a JSON answer may carry
ElementSeqs ==
    { WithIds(kinds) : kinds \in UNION { [1..n -> ElementKinds] : n \in 0..MaxLen } }
    \cup { [i \in 1..len |-> LongElement(start + i)] :
             start \in 0..MaxStart, len \in (MaxResults - 1)..MaxElems }

\* what response.json() may give: <<>> when the body is not JSON, else the
\* parsed document, with or without an elements member
Bodies ==
    { <<>>, <<[remark |-> "runtime error"]>> }
    \cup { <<[elements |-> elements]>> : elements \in ElementSeqs }

\* the Response objects fetch may resolve to
Responses == [ok : BOOLEAN, body : Bodies]

-----------------------------------------------------------------------------
(* The component: state, mount effect, fetchNearbyHospitals, render        *)

VARIABLES
    location,       \* useState: <<>> for null, else <<[lat, lng]>>
    hospitals,      \* useState: sequence of HospitalData
    loading,        \* useState: boolean
    error,          \* useState: <<>> for null, else <<message>>
    pc,             \* where the mount effect's asynchronous chain stands
    geolocation,    \* 'geolocation' in navigator
    acquisition,    \* which callback of getCurrentPosition has run
    requests,       \* the requests issued to the geodata service, in order
    inFlight,       \* the requests issued and not yet settled
    response,       \* <<>>, else <<the Response fetch resolved to>>
    opened,         \* the URLs given to window.open, in order
    probe           \* the calculateDistance calls of the geo-math checks

vars == << location, hospitals, loading, error, pc, geolocation, acquisition,
           requests, inFlight, response, opened, probe >>

LocationMsg == "Please enable location services to find nearby hospitals"

UnsupportedMsg == "Geolocation is not supported by your browser"

FetchMsg == "Failed to fetch nearby hospitals. Please try again later."

\* const radius = 20000
radius == 20000

Init ==
    /\ location = <<>>
    /\ hospitals = <<>>
    /\ loading = TRUE
    /\ error = <<>>
    /\ pc = "mount"
    /\ geolocation \in BOOLEAN
    /\ acquisition = "pending"
    /\ requests = <<>>
    /\ inFlight = 0
    /\ response = <<>>
    /\ opened = <<>>
    /\ probe = [stage |-> "idle"]

\* useEffect(() => {...}, []): runs once after the first render
MountEffect ==
    /\ pc = "mount"
    /\ IF geolocation
       THEN /\ pc' = "locating"
            /\ UNCHANGED << error, loading, acquisition >>
       ELSE /\ error' = <<UnsupportedMsg>>
            /\ loading' = FALSE
            /\ acquisition' = "unavailable"
            /\ pc' = "done"
    /\ UNCHANGED << location, hospitals, geolocation, requests, inFlight,
                    response, opened, probe >>

\* the success callback with fetchNearbyHospitals not awaited: setLoading(false)
\* runs before the request settles
PositionSuccessNoAwait(userLocation) ==
    /\ pc = "locating"
    /\ location' = <<userLocation>>
    /\ acquisition' = "success"
    /\ requests' = Append(requests, [ radius |-> radius,
                                      lat |-> userLocation.lat,
                                      lng |-> userLocation.lng ])
    /\ inFlight' = inFlight + 1
    /\ loading' = FALSE
    /\ pc' = "fetching"
    /\ UNCHANGED << hospitals, error, geolocation, response, opened, probe >>

\* the success callback up to the await of fetch: setLocation, then
\* fetchNearbyHospitals builds the query and calls fetch
PositionSuccess(userLocation) ==
    /\ pc = "locating"
    /\ location' = <<userLocation>>
    /\ acquisition' = "success"
    /\ requests' = Append(requests, [ radius |-> radius,
                                      lat |-> userLocation.lat,
                                      lng |-> userLocation.lng ])
    /\ inFlight' = inFlight + 1
    /\ pc' = "fetching"
    /\ UNCHANGED << hospitals, loading, error, geolocation, response, opened,
                    probe >>

\* the error callback falling back to a default position and querying anyway
PositionErrorFallback ==
    /\ pc = "locating"
    /\ error' = <<LocationMsg>>
    /\ acquisition' = "failed"
    /\ location' = <<[lat |-> 20, lng |-> 10]>>
    /\ requests' = Append(requests, [radius |-> radius, lat |-> 20, lng |-> 10])
    /\ inFlight' = inFlight + 1
    /\ pc' = "fetching"
    /\ UNCHANGED << hospitals, loading, geolocation, response, opened, probe >>

\* the error callback
PositionError ==
    /\ pc = "locating"
    /\ error' = <<LocationMsg>>
    /\ loading' = FALSE
    /\ acquisition' = "failed"
    /\ pc' = "done"
    /\ UNCHANGED << location, hospitals, geolocation, requests, inFlight,
                    response, opened, probe >>

\* fetch rejects (network error): the catch block
FetchRejected ==
    /\ pc = "fetching"
    /\ inFlight' = inFlight - 1
    /\ error' = <<FetchMsg>>
    /\ pc' = "returned"
    /\ UNCHANGED << location, hospitals, loading, geolocation, acquisition,
                    requests, response, opened, probe >>

\* fetch resolves, with a status check that sets the error and carries on
FetchResolvedFlagsStatus(resp) ==
    /\ pc = "fetching"
    /\ inFlight' = inFlight - 1
    /\ response' = <<resp>>
    /\ error' = IF resp.ok THEN error ELSE <<FetchMsg>>
    /\ pc' = "parsing"
    /\ UNCHANGED << location, hospitals, loading, geolocation, acquisition,
                    requests, opened, probe >>

\* fetch resolves: const response = await fetch(...); response.json() starts
FetchResolved(resp) ==
    /\ pc = "fetching"
    /\ inFlight' = inFlight - 1
    /\ response' = <<resp>>
    /\ pc' = "parsing"
    /\ UNCHANGED << location, hospitals, loading, error, geolocation,
                    acquisition, requests, opened, probe >>

\* response.json() settles, with a catch block that rethrows: the caller's
\* await throws and its setLoading(false) is skipped
JsonSettledRethrow ==
    /\ pc = "parsing"
    /\ LET data == response[1].body
       IN  IF data # <<>> /\ "elements" \in DOMAIN data[1]
           THEN /\ hospitals' = nearbyHospitals(data[1].elements, location[1])
                /\ pc' = "returned"
                /\ UNCHANGED error
           ELSE /\ error' = <<FetchMsg>>
                /\ pc' = "done"
                /\ UNCHANGED hospitals
    /\ UNCHANGED << location, loading, geolocation, acquisition, requests,
                    inFlight, response, opened, probe >>

\* response.json() settles: the pipeline and setHospitals, or the catch block
\* when json() rejects or data.elements is undefined
JsonSettled ==
    /\ pc = "parsing"
    /\ LET data == response[1].body
       IN  IF data # <<>> /\ "elements" \in DOMAIN data[1]
           THEN /\ hospitals' = nearbyHospitals(data[1].elements, location[1])
                /\ UNCHANGED error
           ELSE /\ error' = <<FetchMsg>>
                /\ UNCHANGED hospitals
    /\ pc' = "returned"
    /\ UNCHANGED << location, loading, geolocation, acquisition, requests,
                    inFlight, response, opened, probe >>

\* the success callback after await fetchNearbyHospitals(...): setLoading(false)
Resume ==
    /\ pc = "returned"
    /\ loading' = FALSE
    /\ pc' = "done"
    /\ UNCHANGED << location, hospitals, error, geolocation, acquisition,
                    requests, inFlight, response, opened, probe >>

\* the three return statements of App
Render ==
    IF loading THEN "loading"
    ELSE IF TruthyStr(error) THEN "error"
    ELSE "results"

\* Get Directions refreshing the result list as well
handleGetDirectionsRefetch(i) ==
    /\ Render = "results"
    /\ i \in 1..Len(hospitals)
    /\ Len(opened) < MaxOpens
    /\ location # <<>>
    /\ opened' = Append(opened, [ from |-> location[1],
                                  to |-> hospitals[i].location ])
    /\ requests' = Append(requests, [ radius |-> radius,
                                      lat |-> location[1].lat,
                                      lng |-> location[1].lng ])
    /\ inFlight' = inFlight + 1
    /\ UNCHANGED << location, hospitals, loading, error, pc, geolocation,
                    acquisition, response, probe >>

\* the Get Directions button of the i-th card: handleGetDirections(hospital)
handleGetDirections(i) ==
    /\ Render = "results"
    /\ i \in 1..Len(hospitals)
    /\ Len(opened) < MaxOpens
    /\ IF location = <<>>
       THEN UNCHANGED opened
       ELSE opened' = Append(opened, [ from |-> location[1],
                                       to |-> hospitals[i].location ])
    /\ UNCHANGED << location, hospitals, loading, error, pc, geolocation,
                    acquisition, requests, inFlight, response, probe >>

Next ==
    \/ MountEffect
    \/ \E userLocation \in UserLocations : PositionSuccess(userLocation)
    \/ PositionError
    \/ FetchRejected
    \/ \E resp \in Responses : FetchResolved(resp)
    \/ JsonSettled
    \/ Resume
    \/ \E i \in 1..MaxCard : handleGetDirections(i)

Spec == Init /\ [][Next]_vars

\* the scheduling the session relies on: the effect runs after mount, the
\* location capability invokes one of its callbacks, the request settles, the
\* body is read, and the awaiting callback is resumed.  The fourth conjunct is
\* WF_vars(JsonSettled) with ENABLED <<JsonSettled>>_vars written out: the
\* action is enabled exactly when pc = "parsing", and always changes pc.
LiveSpec ==
    /\ Spec
    /\ WF_vars(MountEffect)
    /\ WF_vars(PositionError
               \/ \E userLocation \in UserLocations : PositionSuccess(userLocation))
    /\ WF_vars(FetchRejected \/ \E resp \in Responses : FetchResolved(resp))
    /\ ([]<>(pc # "parsing") \/ []<><<JsonSettled>>_vars)
    /\ WF_vars(Resume)

-----------------------------------------------------------------------------
(* The geo-math on its own: calculateDistance applied to pairs of points   *)

\* the coordinates calculateDistance is applied to
GeoCoords == { [lat |-> lat, lng |-> lng] : lat \in {-30, 0, 45}, lng \in {-60, 0, 75} }

InitGeo ==
    /\ location = <<>>
    /\ hospitals = <<>>
    /\ loading = TRUE
    /\ error = <<>>
    /\ pc = "mount"
    /\ geolocation = TRUE
    /\ acquisition = "pending"
    /\ requests = <<>>
    /\ inFlight = 0
    /\ response = <<>>
    /\ opened = <<>>
    /\ \E A \in GeoCoords, B \in GeoCoords :
           probe = [stage |-> "chosen", A |-> A, B |-> B]

\* calculateDistance(A, B), calculateDistance(B, A) and calculateDistance(A, A)
Measure ==
    /\ probe.stage = "chosen"
    /\ probe' = [ stage |-> "measured", A |-> probe.A, B |-> probe.B,
                  AB |-> calculateDistance(probe.A.lat, probe.A.lng,
                                           probe.B.lat, probe.B.lng),
                  BA |-> calculateDistance(probe.B.lat, probe.B.lng,
                                           probe.A.lat, probe.A.lng),
                  AA |-> calculateDistance(probe.A.lat, probe.A.lng,
                                           probe.A.lat, probe.A.lng) ]
    /\ UNCHANGED << location, hospitals, loading, error, pc, geolocation,
                    acquisition, requests, inFlight, response, opened >>

NextGeo == Measure

SpecGeo == InitGeo /\ [][NextGeo]_vars

-----------------------------------------------------------------------------
(* Properties                                                              *)

\* the raw elements the pipeline was given, <<>> when there were none
RawElements ==
    IF /\ response # <<>>
       /\ response[1].body # <<>>
       /\ "elements" \in DOMAIN response[1].body[1]
    THEN response[1].body[1].elements
    ELSE <<>>

\* fetchNearbyHospitals has returned after running the pipeline
PipelineRan ==
    /\ pc \in {"returned", "done"}
    /\ response # <<>>
    /\ response[1].body # <<>>
    /\ "elements" \in DOMAIN response[1].body[1]

\* the element has a tags.name value
Named(element) == "tags" \in DOMAIN element /\ "name" \in DOMAIN element.tags

\* the element carries a direct point
HasPoint(element) == "lat" \in DOMAIN element /\ "lon" \in DOMAIN element

\* the element carries a center
HasCenter(element) == "center" \in DOMAIN element

\* the coordinate of an element with a point or a center: the point first
Coordinate(element) ==
    IF HasPoint(element)
    THEN [lat |-> <<element.lat>>, lng |-> <<element.lon>>]
    ELSE [lat |-> <<element.center.lat>>, lng |-> <<element.center.lon>>]

\* name present and coordinate resolvable
Valid(element) == Named(element) /\ (HasPoint(element) \/ HasCenter(element))

\* the distance the record of a valid element carries
RecordDistance(element) ==
    ToFixed1(DistanceTo(location[1], Coordinate(element).lat,
                        Coordinate(element).lng))

Min(m, n) == IF m < n THEN m ELSE n

\* C1: after a non-success response the pipeline has not run: error is the
\* generic message, hospitals is empty, and the error state is rendered once
\* loading is cleared.
C1_NonSuccessIsError ==
    (pc \in {"returned", "done"} /\ response # <<>> /\ ~response[1].ok)
    => /\ error = <<FetchMsg>>
       /\ hospitals = <<>>
       /\ (pc = "done" => Render = "error")

\* C2: once location acquisition has failed (error callback, or no
\* geolocation capability), location is null, error is the location message,
\* the error state is rendered once loading is cleared, and no request has
\* been issued.
C2_LocationFailureHalts ==
    acquisition \in {"failed", "unavailable"}
    => /\ location = <<>>
       /\ error = <<IF acquisition = "failed" THEN LocationMsg ELSE UnsupportedMsg>>
       /\ (~loading => Render = "error")
       /\ requests = <<>>
       /\ inFlight = 0

C2_Witness ==
    /\ acquisition = "failed"
    /\ pc = "done"
    /\ ~loading
    /\ Render = "error"

\* C3: every named raw element with a direct point is in the result with that
\* point, every named raw element with only a center is in the result with
\* the center, and a named element is left out on coordinate grounds only when
\* it has neither (stated where the cap of 10 leaves nothing out).
C3_CoordinateResolution ==
    (PipelineRan /\ Len(hospitals) < MaxResults)
    => \A i \in DOMAIN RawElements :
          LET element == RawElements[i]
          IN  Named(element)
              => IF HasPoint(element) \/ HasCenter(element)
                 THEN \E j \in DOMAIN hospitals :
                         /\ hospitals[j].id = element.id
                         /\ hospitals[j].location = Coordinate(element)
                 ELSE \A j \in DOMAIN hospitals : hospitals[j].id # element.id

\* C4: with n valid raw elements the result has exactly min(n, 10) records,
\* in non-decreasing distance, and no valid element left out is strictly
\* nearer than a record kept.
C4_SortedAndCapped ==
    PipelineRan
    => LET valid == { i \in DOMAIN RawElements : Valid(RawElements[i]) }
           kept == { hospitals[j].id : j \in DOMAIN hospitals }
       IN  /\ Len(hospitals) = Min(Cardinality(valid), MaxResults)
           /\ \A j \in 1..(Len(hospitals) - 1) :
                 hospitals[j].distance[1] <= hospitals[j + 1].distance[1]
           /\ \A i \in valid : \A j \in DOMAIN hospitals :
                 RawElements[i].id \notin kept
                 => ~(RecordDistance(RawElements[i])[1] < hospitals[j].distance[1])

\* C5: every record in hospitals comes from a raw element that has a
\* tags.name value and a point or a center, and carries that name and a
\* non-null latitude and longitude.
C5_RecordsNamedAndLocated ==
    \A j \in DOMAIN hospitals :
       /\ hospitals[j].location.lat # <<>>
       /\ hospitals[j].location.lng # <<>>
       /\ \E i \in DOMAIN RawElements :
             /\ RawElements[i].id = hospitals[j].id
             /\ Named(RawElements[i])
             /\ hospitals[j].name = RawElements[i].tags.name
             /\ (HasPoint(RawElements[i]) \/ HasCenter(RawElements[i]))

C5_Witness ==
    /\ pc = "done"
    /\ hospitals # <<>>
    /\ \E i \in DOMAIN RawElements : ~Named(RawElements[i])
    /\ \E i \in DOMAIN RawElements :
          /\ Named(RawElements[i])
          /\ ~HasPoint(RawElements[i])
          /\ ~HasCenter(RawElements[i])

\* C6: one request per successful location acquisition, for the 20 km query
\* around the acquired position; never more than one request in total nor
\* more than one in flight; opening directions issues none.
C6_SingleRequest ==
    /\ [](/\ Len(requests) = (IF acquisition = "success" THEN 1 ELSE 0)
          /\ inFlight <= 1
          /\ (requests # <<>>
              => /\ location # <<>>
                 /\ requests[1] = [ radius |-> 20000,
                                    lat |-> location[1].lat,
                                    lng |-> location[1].lng ]))
    /\ [][opened' # opened => (requests' = requests /\ inFlight' = inFlight)]_vars

C6_Witness ==
    /\ pc = "done"
    /\ acquisition = "success"
    /\ Len(requests) = 1
    /\ opened # <<>>

\* C7: once error is non-null, error, hospitals and the requests issued never
\* change again, and once the error state is rendered it stays rendered.
C7_FailuresAreTerminal ==
    [][/\ (error # <<>>
           => (error' = error /\ hospitals' = hospitals /\ requests' = requests))
       /\ (Render = "error" => Render' = "error")]_vars

C7_Witness ==
    /\ pc = "done"
    /\ error = <<FetchMsg>>
    /\ response # <<>>
    /\ response[1].ok
    /\ Render = "error"

\* C8: one of the three states is rendered; it is loading while location
\* acquisition or the query is pending; results is rendered only with
\* location non-null, no request in flight and hospitals holding the result
\* set of the pipeline, which does not change while results is rendered.
C8_RenderStates ==
    /\ [](/\ Render \in {"loading", "error", "results"}
          /\ (pc \in {"mount", "locating", "fetching", "parsing"}
              => Render = "loading")
          /\ (Render = "results"
              => /\ pc = "done"
                 /\ location # <<>>
                 /\ inFlight = 0
                 /\ PipelineRan
                 /\ hospitals = nearbyHospitals(RawElements, location[1])))
    /\ [][Render = "results" => hospitals' = hospitals]_vars

C8_Witness ==
    /\ Render = "results"
    /\ hospitals # <<>>
    /\ Len(hospitals) < Len(RawElements)

\* C9: calculateDistance(A, B) = calculateDistance(B, A), calculateDistance(A, A)
\* is 0, and the distance is a number that is not negative.
C9_DistanceSymmetric ==
    probe.stage = "measured"
    => /\ probe.AB = probe.BA
       /\ probe.AA = <<0>>
       /\ probe.AB # <<>>
       /\ probe.AB[1] >= 0

C9_Witness ==
    /\ probe.stage = "measured"
    /\ probe.A.lat # probe.B.lat
    /\ probe.A.lng # probe.B.lng
    /\ probe.AB # <<>>
    /\ probe.AB[1] > 0

\* C10: when the location capability calls back and the request settles,
\* loading is eventually false and stays false.
C10_LoadingCleared == <>[](~loading)

C10_Witness ==
    /\ pc = "done"
    /\ ~loading
    /\ response # <<>>
    /\ response[1].body = <<>>
    /\ error = <<FetchMsg>>

====
